---- MODULE Spec2Model ----
(***************************************************************************)
(* The resilient request engine of internal/api: Client.doWithRetry, the   *)
(* circuit breaker (checkCircuitBreaker, recordSuccess, record5xxError,    *)
(* ResetCircuitBreaker) and the retry policy, with several goroutines      *)
(* calling one Client.                                                     *)
(*                                                                         *)
(* Time is counted in whole seconds.  An instant is stored as its age: the *)
(* number of seconds elapsed since it, which is what the code reads back   *)
(* with time.Since.  Ages stop growing at cbCooldown, the only value they  *)
(* are ever compared with.  A timer is stored as the seconds left on it.   *)
(***************************************************************************)
EXTENDS Integers, Naturals, Sequences, FiniteSets, TLC

\* ------------------------------------------------------------------ bounds
\* the server stops answering 5xx once the counter has reached this value
MaxConsecutive == 6
\* the cooldown, in seconds, of the Client that two goroutines share: set as
\* the tests set it (client.cbCooldown = ...), longer than
\* ServerErrorRetryDelay and shorter than the longest rate-limit wait
ShortCooldown == 2

\* ------------------------------------------------------- program constants
MaxRateLimitRetries == 3
RateLimitBaseDelay == 1
Max5xxRetries == 1
ServerErrorRetryDelay == 1
CircuitBreakerThreshold == 5
CircuitBreakerCooldown == 30

CircuitClosed == "Closed"
CircuitOpen == "Open"
CircuitHalfOpen == "HalfOpen"
CircuitStates == {CircuitClosed, CircuitOpen, CircuitHalfOpen}

ErrCircuitOpen == "ErrCircuitOpen"
ErrTransport == "ErrTransport"
ErrContext == "ErrContext"

\* time.Time{}: the zero instant, further in the past than any cooldown
ZeroTime == -1
\* time.Now(), as an age
TimeNow == 0
\* the goroutines that may call the one Client
Callers == {"c1", "c2"}
\* the cooldowns the Client is configured with: NewClient's, and a short one
Cooldowns == {CircuitBreakerCooldown, ShortCooldown}
\* the verbs of Get and Post: one read-only, one not
Methods == {"GET", "POST"}
\* status codes the server answers with, one or two of each band
StatusCodes == {200, 304, 404, 429, 500}
\* Retry-After header values of a 429 response, as character sequences:
\* absent (""), whole seconds, a negative number, an HTTP date, a fraction
RetryAfterValues ==
    {<<>>, <<"2">>, <<"-", "1">>, <<"W", "e", "d">>, <<"1", ".", "5">>}

NoResult == [resp |-> 0, err |-> "nil"]
\* a request without a body; the bytes json.Marshal gave for one with a
\* body; a reader that has been read to its end
\* CircuitBreakerState has not been called
NotRead == [state |-> "none", elapsed |-> FALSE]
NoBody == "nil"
Data == "data"
Drained == "EOF"

\* the goroutines the login server runs handleComplete on
Handlers == {"h1", "h2", "h3"}
\* the csrf query parameter of a request: s.csrfToken, or another string
CsrfValues == {"token", "other"}
StatusOK == 200
StatusForbidden == 403
StatusMethodNotAllowed == 405
\* nothing written to the ResponseWriter
NoStatus == 0

\* an error body, as the sequence of its lexical pieces: JSON punctuation,
\* quoted strings, literals, a space, and bytes that begin no JSON value
Whitespace == {" "}
Strings == {"\"error\"", "\"code\"", "\"message\"", "\"doc_url\"",
            "\"c\"", "\"m\"", "\"u\"", "\"k\""}
\* the bodies of up to MaxBody pieces are built from these
ShortPieces == {" ", "<", "!", "{", "}", "x", "null"}
MaxBody == 3
\* the error envelope of the API
Envelope ==
    <<"{", "\"error\"", ":", "{", "\"code\"", ":", "\"c\"", ",",
      "\"message\"", ":", "\"m\"", ",", "\"doc_url\"", ":", "\"u\"",
      "}", "}">>
\* an object without the error member; a code that is no string; an error
\* that is no object; a null message; an envelope cut short
LongBodies ==
    { Envelope,
      <<" ">> \o Envelope \o <<" ">>,
      <<"{", "\"k\"", ":", "true", "}">>,
      <<"{", "\"error\"", ":", "{", "\"code\"", ":", "true", "}", "}">>,
      <<"{", "\"error\"", ":", "\"m\"", "}">>,
      <<"{", "\"error\"", ":", "{", "\"code\"", ":", "\"c\"", ",",
        "\"message\"", ":", "null", "}", "}">>,
      <<"{", "\"error\"", ":", "{", "\"code\"", ":", "\"c\"", "}">>,
      <<"{", "\"error\"", ":", "{", "\"message\"", ":", "\"m\"", "}",
        ",", "\"error\"", ":", "{", "\"code\"", ":", "\"c\"", "}", "}">>,
      <<" ", " ", "<", "!", "x">>,
      <<"<", "x", ">", "x">> }
Bodies ==
    LongBodies \cup
    UNION { [1..n -> ShortPieces] : n \in 0..MaxBody }

VARIABLES
    cbCooldown,          \* Client.cbCooldown, in seconds
    cbThreshold,         \* Client.cbThreshold
    cbState,             \* Client.cbState
    cbConsecutive5xx,    \* Client.cbConsecutive5xx
    cbOpenedAt,          \* Client.cbOpenedAt, as an age (or ZeroTime)
    cbHalfOpenInFlight,  \* Client.cbHalfOpenInFlight
    pc,                  \* where each caller is in doWithRetry
    method,              \* req.Method of the caller's logical call
    retries429,          \* local retries429
    retries5xx,          \* local retries5xx
    ctxDone,             \* whether the caller's ctx is cancelled or expired
    timer,               \* seconds left on the caller's time.After
    result,              \* what doWithRetry returned: status code and error
    attempts,            \* httpClient.Do calls of the logical call so far
    admit,               \* history: how the outstanding attempt was let
                         \* through, by a Closed breaker or as a probe
    run5xx,              \* history: 5xx responses received in a row, since
                         \* the last 2xx or 4xx response or reset
    gets,                \* history: client.Get calls made by the program of
                         \* TestCircuitBreaker_OpensAfterThreshold
    cbMu,                \* Client.cbMu
    body,                \* req.Body: what the reader still has to give
    reported,            \* what CircuitBreakerState last returned to the
                         \* program that reads it, and (history) whether
                         \* the cooldown was over at that read
    errBody,             \* the body handed to ParseAPIError
    parsed,              \* whether ParseAPIError has returned
    apiError,            \* the APIError it returned
    doneChan,            \* SetupServer.doneChan: "open" or "closed"
    hpc,                 \* where each handler goroutine is in
                         \* handleComplete
    status,              \* the status each handler wrote to its response
    closes               \* history: close(s.doneChan) calls made

breaker == <<cbState, cbConsecutive5xx, cbOpenedAt, cbHalfOpenInFlight>>
locals == <<method, retries429, retries5xx>>
parser == <<errBody, parsed, apiError>>
login == <<doneChan, hpc, status, closes>>
\* what no operation of the Client writes: its configuration, and the state
\* of the error parser and of the login server
config == <<cbCooldown, cbThreshold, parser, login>>
call == <<method, retries429, retries5xx, ctxDone, timer, attempts, admit,
          body>>
vars == <<cbCooldown, cbThreshold, cbState, cbConsecutive5xx, cbOpenedAt,
          cbHalfOpenInFlight, pc, method, retries429, retries5xx, ctxDone,
          timer, result, attempts, admit, run5xx, gets, cbMu, body,
          reported, errBody, parsed, apiError, doneChan, hpc, status,
          closes>>
client == <<cbCooldown, cbThreshold, breaker, pc, call, result, run5xx, gets,
            cbMu, reported>>

\* the goroutines that call the Client: one with NewClient's cooldown, all
\* of them, concurrently, with the short one
ActiveCallers == IF cbCooldown = ShortCooldown THEN Callers ELSE {"c1"}

\* NewClient: the Client as constructed, no call made yet
NewClient ==
    /\ cbThreshold = CircuitBreakerThreshold
    /\ cbState = CircuitClosed
    /\ cbConsecutive5xx = 0
    /\ cbOpenedAt = ZeroTime
    /\ cbHalfOpenInFlight = FALSE
    /\ pc = [p \in Callers |-> "idle"]
    /\ method = [p \in Callers |-> "GET"]
    /\ retries429 = [p \in Callers |-> 0]
    /\ retries5xx = [p \in Callers |-> 0]
    /\ ctxDone = [p \in Callers |-> FALSE]
    /\ timer = [p \in Callers |-> 0]
    /\ result = [p \in Callers |-> NoResult]
    /\ attempts = [p \in Callers |-> 0]
    /\ admit = [p \in Callers |-> "none"]
    /\ run5xx = 0
    /\ gets = 0
    /\ cbMu = "unlocked"
    /\ body = [p \in Callers |-> NoBody]
    /\ reported = NotRead

\* the zero APIError
ZeroAPIError == [Code |-> <<>>, Message |-> <<>>, DocURL |-> <<>>]

\* no error body is being parsed
ParserIdle ==
    /\ errBody = <<>>
    /\ parsed = FALSE
    /\ apiError = ZeroAPIError

\* NewSetupServer: the login server as constructed, no request served yet
NewSetupServer ==
    /\ doneChan = "open"
    /\ hpc = [h \in Handlers |-> "idle"]
    /\ status = [h \in Handlers |-> NoStatus]
    /\ closes = 0

\* NewClient, and the cooldown possibly set afterwards
Init ==
    /\ cbCooldown \in Cooldowns
    /\ NewClient
    /\ ParserIdle
    /\ NewSetupServer

\* ------------------------------------------------------------ the breaker
\* faulty variant: the lock is not released when the function returns
UnlockMissing == cbMu' = "locked"

\* c.cbMu.Lock() and the deferred c.cbMu.Unlock() of checkCircuitBreaker,
\* recordSuccess, record5xxError and ResetCircuitBreaker
Lock == cbMu = "unlocked"
Unlock == cbMu' = "unlocked"

\* time.Since(t), up to cbCooldown
TimeSince(t) == IF t = ZeroTime THEN cbCooldown ELSE t

\* faulty variant: the cooldown is never over
CooldownNeverElapsed(t) == TimeSince(t) > cbCooldown

\* faulty variant: the cooldown is taken as over one second early
CooldownElapsedEarly(t) == TimeSince(t) >= cbCooldown - 1

\* line 623: time.Since(c.cbOpenedAt) >= c.cbCooldown
CooldownElapsed(t) == TimeSince(t) >= cbCooldown

\* faulty variant: > for >=
ThresholdReachedLate(n) == n > cbThreshold
\* faulty variant: the breaker opens one error early
ThresholdReachedEarly(n) == n >= cbThreshold - 1

\* line 670: c.cbConsecutive5xx >= c.cbThreshold
ThresholdReached(n) == n >= cbThreshold

\* faulty variant: once the cooldown is over the breaker closes without a probe
checkCircuitBreakerCloses(err) ==
    CASE cbState = CircuitClosed ->
            /\ err = "nil"
            /\ UNCHANGED breaker
      [] cbState = CircuitOpen ->
            IF CooldownElapsed(cbOpenedAt)
            THEN /\ cbState' = CircuitClosed
                 /\ err = "nil"
                 /\ UNCHANGED <<cbConsecutive5xx, cbOpenedAt, cbHalfOpenInFlight>>
            ELSE /\ err = ErrCircuitOpen
                 /\ UNCHANGED breaker
      [] cbState = CircuitHalfOpen ->
            IF cbHalfOpenInFlight
            THEN /\ err = ErrCircuitOpen
                 /\ UNCHANGED breaker
            ELSE /\ cbHalfOpenInFlight' = TRUE
                 /\ err = "nil"
                 /\ UNCHANGED <<cbState, cbConsecutive5xx, cbOpenedAt>>

\* faulty variant: a rejected call restarts the cooldown
checkCircuitBreakerRestarts(err) ==
    CASE cbState = CircuitClosed ->
            /\ err = "nil"
            /\ UNCHANGED breaker
      [] cbState = CircuitOpen ->
            IF CooldownElapsed(cbOpenedAt)
            THEN /\ cbState' = CircuitHalfOpen
                 /\ err = "nil"
                 /\ UNCHANGED <<cbConsecutive5xx, cbOpenedAt, cbHalfOpenInFlight>>
            ELSE /\ err = ErrCircuitOpen
                 /\ cbOpenedAt' = TimeNow
                 /\ UNCHANGED <<cbState, cbConsecutive5xx, cbHalfOpenInFlight>>
      [] cbState = CircuitHalfOpen ->
            IF cbHalfOpenInFlight
            THEN /\ err = ErrCircuitOpen
                 /\ UNCHANGED breaker
            ELSE /\ cbHalfOpenInFlight' = TRUE
                 /\ err = "nil"
                 /\ UNCHANGED <<cbState, cbConsecutive5xx, cbOpenedAt>>

\* faulty variant: an Open breaker lets the next request through as a probe
\* without looking at the clock
checkCircuitBreakerOpenAdmits(err) ==
    CASE cbState = CircuitClosed ->
            /\ err = "nil"
            /\ UNCHANGED breaker
      [] cbState = CircuitOpen ->
            /\ cbState' = CircuitHalfOpen
            /\ err = "nil"
            /\ UNCHANGED <<cbConsecutive5xx, cbOpenedAt, cbHalfOpenInFlight>>
      [] cbState = CircuitHalfOpen ->
            IF cbHalfOpenInFlight
            THEN /\ err = ErrCircuitOpen
                 /\ UNCHANGED breaker
            ELSE /\ cbHalfOpenInFlight' = TRUE
                 /\ err = "nil"
                 /\ UNCHANGED <<cbState, cbConsecutive5xx, cbOpenedAt>>

\* checkCircuitBreaker, returning err ("nil" when the request may go)
checkCircuitBreaker(err) ==
    CASE cbState = CircuitClosed ->
            /\ err = "nil"
            /\ UNCHANGED breaker
      [] cbState = CircuitOpen ->
            IF CooldownElapsed(cbOpenedAt)
            THEN /\ cbState' = CircuitHalfOpen
                 /\ err = "nil"
                 /\ UNCHANGED <<cbConsecutive5xx, cbOpenedAt, cbHalfOpenInFlight>>
            ELSE /\ err = ErrCircuitOpen
                 /\ UNCHANGED breaker
      [] cbState = CircuitHalfOpen ->
            IF cbHalfOpenInFlight
            THEN /\ err = ErrCircuitOpen
                 /\ UNCHANGED breaker
            ELSE /\ cbHalfOpenInFlight' = TRUE
                 /\ err = "nil"
                 /\ UNCHANGED <<cbState, cbConsecutive5xx, cbOpenedAt>>

\* faulty variant: a success closes the breaker only from HalfOpen
recordSuccessHalfOpenOnly ==
    /\ cbState' = IF cbState = CircuitHalfOpen THEN CircuitClosed ELSE cbState
    /\ cbConsecutive5xx' = 0
    /\ cbHalfOpenInFlight' = FALSE
    /\ UNCHANGED cbOpenedAt

\* faulty variant: a success closes the breaker and leaves the count
recordSuccessKeepsCount ==
    /\ cbState' = CircuitClosed
    /\ cbHalfOpenInFlight' = FALSE
    /\ UNCHANGED <<cbConsecutive5xx, cbOpenedAt>>

\* lines 642-652
recordSuccess ==
    /\ cbState' = CircuitClosed
    /\ cbConsecutive5xx' = 0
    /\ cbHalfOpenInFlight' = FALSE
    /\ UNCHANGED cbOpenedAt

\* faulty variant: a failed probe reopens the breaker with the old openedAt
record5xxErrorStale ==
    /\ cbConsecutive5xx' = cbConsecutive5xx + 1
    /\ cbHalfOpenInFlight' = FALSE
    /\ IF cbState = CircuitHalfOpen
       THEN /\ cbState' = CircuitOpen
            /\ UNCHANGED cbOpenedAt
       ELSE IF ThresholdReached(cbConsecutive5xx + 1)
       THEN /\ cbState' = CircuitOpen
            /\ cbOpenedAt' = TimeNow
       ELSE UNCHANGED <<cbState, cbOpenedAt>>

\* faulty variant: a failed probe reopens the breaker and leaves the flag
record5xxErrorKeepsFlag ==
    /\ cbConsecutive5xx' = cbConsecutive5xx + 1
    /\ IF cbState = CircuitHalfOpen
       THEN /\ cbState' = CircuitOpen
            /\ cbOpenedAt' = TimeNow
            /\ UNCHANGED cbHalfOpenInFlight
       ELSE /\ cbHalfOpenInFlight' = FALSE
            /\ IF ThresholdReached(cbConsecutive5xx + 1)
               THEN /\ cbState' = CircuitOpen
                    /\ cbOpenedAt' = TimeNow
               ELSE UNCHANGED <<cbState, cbOpenedAt>>

\* faulty variant: only a Closed breaker counts the error
record5xxErrorClosedOnly ==
    /\ cbConsecutive5xx' = IF cbState = CircuitClosed
                           THEN cbConsecutive5xx + 1 ELSE cbConsecutive5xx
    /\ cbHalfOpenInFlight' = FALSE
    /\ IF cbState = CircuitHalfOpen
       THEN /\ cbState' = CircuitOpen
            /\ cbOpenedAt' = TimeNow
       ELSE IF ThresholdReached(cbConsecutive5xx + 1)
       THEN /\ cbState' = CircuitOpen
            /\ cbOpenedAt' = TimeNow
       ELSE UNCHANGED <<cbState, cbOpenedAt>>

\* lines 655-675
record5xxError ==
    /\ cbConsecutive5xx' = cbConsecutive5xx + 1
    /\ cbHalfOpenInFlight' = FALSE
    /\ IF cbState = CircuitHalfOpen
       THEN /\ cbState' = CircuitOpen
            /\ cbOpenedAt' = TimeNow
       ELSE IF ThresholdReached(cbConsecutive5xx + 1)
       THEN /\ cbState' = CircuitOpen
            /\ cbOpenedAt' = TimeNow
       ELSE UNCHANGED <<cbState, cbOpenedAt>>

\* ------------------------------------------------------- the retry policy
\* faulty variant: every method is retried after a 5xx
IsIdempotentAll(m) == m \in Methods
\* faulty variant: no method is retried after a 5xx
IsIdempotentNone(m) == m \notin Methods
\* line 405
IsIdempotent(m) == m = "GET" \/ m = "HEAD" \/ m = "OPTIONS"
Is2xx(s) == s >= 200 /\ s < 300
\* faulty variant: 429 is taken with the other 4xx statuses
Is4xxAny(s) == s >= 400 /\ s < 500
Is4xxNot429(s) == s >= 400 /\ s < 500 /\ s # 429
Is429(s) == s = 429
Is5xx(s) == s >= 500

\* faulty variant: one rate-limit retry too many
RateLimitExhaustedLate(k) == k > MaxRateLimitRetries
\* line 440: retries429 >= MaxRateLimitRetries
RateLimitExhausted(k) == k >= MaxRateLimitRetries

\* faulty variant: one server-error retry too many
ServerErrorExhaustedLate(k) == k > Max5xxRetries
\* line 478: retries5xx >= Max5xxRetries
ServerErrorExhausted(k) == k >= Max5xxRetries

Pow2(k) == IF k = 0 THEN 1 ELSE IF k = 1 THEN 2 ELSE IF k = 2 THEN 4 ELSE 8

\* faulty variant: the jitter may be half the base delay itself
JittersWide(k) == {j \in 0..(RateLimitBaseDelay * Pow2(k)) :
                      2 * j <= RateLimitBaseDelay * Pow2(k)}

\* mathrand.Int63n(int64(baseDelay / 2)) in whole seconds: the values j
\* with j < baseDelay / 2
Jitters(k) == {j \in 0..(RateLimitBaseDelay * Pow2(k)) :
                  2 * j < RateLimitBaseDelay * Pow2(k)}

Digits == {"0", "1", "2", "3", "4", "5", "6", "7", "8", "9"}
DigitValue(c) ==
    CASE c = "0" -> 0 [] c = "1" -> 1 [] c = "2" -> 2 [] c = "3" -> 3
      [] c = "4" -> 4 [] c = "5" -> 5 [] c = "6" -> 6 [] c = "7" -> 7
      [] c = "8" -> 8 [] c = "9" -> 9

RECURSIVE DecimalValue(_)
DecimalValue(cs) ==
    IF cs = <<>> THEN 0
    ELSE 10 * DecimalValue(SubSeq(cs, 1, Len(cs) - 1)) + DigitValue(cs[Len(cs)])

\* the digits a character sequence starts with
RECURSIVE LeadingDigits(_)
LeadingDigits(cs) ==
    IF cs = <<>> \/ Head(cs) \notin Digits THEN <<>>
    ELSE <<Head(cs)>> \o LeadingDigits(Tail(cs))

\* faulty variant: the number is read from the leading digits, whatever
\* follows them
AtoiLenient(cs) ==
    IF LeadingDigits(cs) = <<>> THEN [ok |-> FALSE, n |-> 0]
    ELSE [ok |-> TRUE, n |-> DecimalValue(LeadingDigits(cs))]

\* strconv.Atoi: an optional sign, then one or more decimal digits
Atoi(cs) ==
    LET signed == cs # <<>> /\ cs[1] \in {"+", "-"}
        ds == IF signed THEN Tail(cs) ELSE cs
    IN  IF ds = <<>> \/ \E i \in 1..Len(ds) : ds[i] \notin Digits
        THEN [ok |-> FALSE, n |-> 0]
        ELSE [ok |-> TRUE,
              n |-> IF signed /\ cs[1] = "-"
                    THEN 0 - DecimalValue(ds) ELSE DecimalValue(ds)]

\* faulty variant: the header can lengthen the computed wait, not shorten it
RateLimitDelayAtLeastBase(k, jitter, header) ==
    IF header # <<>> /\ Atoi(header).ok
          /\ Atoi(header).n > RateLimitBaseDelay * Pow2(k) + jitter
    THEN Atoi(header).n
    ELSE RateLimitBaseDelay * Pow2(k) + jitter

\* lines 444-452: the wait after a 429
RateLimitDelay(k, jitter, header) ==
    IF header # <<>> /\ Atoi(header).ok
    THEN Atoi(header).n
    ELSE RateLimitBaseDelay * Pow2(k) + jitter

\* time.After(d): a timer of d seconds; it has fired at once when d <= 0
TimeAfter(d) == IF d > 0 THEN d ELSE 0

\* faulty variant: the body is not replayed
GetBodySkipped(p) == IF body[p] = NoBody THEN NoBody ELSE Drained

\* lines 457-462 and 485-490, after httpClient.Do has read the body to its
\* end: req.Body, err = req.GetBody() when the request has a GetBody, which
\* Post gives every request with a body (lines 523-531)
GetBody(p) == IF method[p] = "POST" THEN Data
              ELSE IF body[p] = NoBody THEN NoBody ELSE Drained

\* doWithRetry returns (resp, err): its locals are gone
Return(p, resp, err) ==
    /\ pc' = [pc EXCEPT ![p] = "done"]
    /\ result' = [result EXCEPT ![p] = [resp |-> resp, err |-> err]]
    /\ method' = [method EXCEPT ![p] = "GET"]
    /\ retries429' = [retries429 EXCEPT ![p] = 0]
    /\ retries5xx' = [retries5xx EXCEPT ![p] = 0]
    /\ ctxDone' = [ctxDone EXCEPT ![p] = FALSE]
    /\ timer' = [timer EXCEPT ![p] = 0]
    /\ attempts' = [attempts EXCEPT ![p] = 0]
    /\ admit' = [admit EXCEPT ![p] = "none"]
    /\ body' = [body EXCEPT ![p] = NoBody]

\* the loop goes on: the call moves to `to`, one more attempt made, and
\* waits `delay` seconds
Continue(p, to, delay) ==
    /\ pc' = [pc EXCEPT ![p] = to]
    /\ timer' = [timer EXCEPT ![p] = TimeAfter(delay)]
    /\ attempts' = [attempts EXCEPT ![p] = @ + 1]
    /\ admit' = [admit EXCEPT ![p] = "none"]
    /\ body' = [body EXCEPT ![p] = GetBody(p)]
    /\ UNCHANGED <<locals, ctxDone, result>>

\* lines 444-471: a 429 with Retry-After header h and retries left; the
\* call waits out the delay computed from it
RateLimited(p, h) ==
    \E j \in Jitters(retries429[p]) :
       Continue(p, "wait429", RateLimitDelay(retries429[p], j, h))

\* ------------------------------------------------------------ the actions
\* faulty variant: the retry counters are the Client's, not the call's: a
\* call starts with what the calls under way have spent
CallSharedCounters(p) ==
    /\ p \in ActiveCallers
    /\ pc[p] \in {"idle", "done"}
    /\ \E m \in Methods :
          /\ method' = [method EXCEPT ![p] = m]
          /\ body' = [body EXCEPT ![p] = IF m = "POST" THEN Data ELSE NoBody]
    /\ \E q \in Callers :
          /\ retries429' = [retries429 EXCEPT ![p] = retries429[q]]
          /\ retries5xx' = [retries5xx EXCEPT ![p] = retries5xx[q]]
    /\ result' = [result EXCEPT ![p] = NoResult]
    /\ pc' = [pc EXCEPT ![p] = "check"]
    /\ UNCHANGED <<config, breaker, ctxDone, timer, attempts, admit, run5xx,
                   cbMu, reported>>

\* Get or Post builds the request (lines 506-533) and doWithRetry is
\* entered (lines 400-405): a logical call starts, its counters at 0
Call(p) ==
    /\ p \in ActiveCallers
    /\ pc[p] \in {"idle", "done"}
    /\ \E m \in Methods :
          /\ method' = [method EXCEPT ![p] = m]
          /\ body' = [body EXCEPT ![p] = IF m = "POST" THEN Data ELSE NoBody]
    /\ retries429' = [retries429 EXCEPT ![p] = 0]
    /\ retries5xx' = [retries5xx EXCEPT ![p] = 0]
    /\ result' = [result EXCEPT ![p] = NoResult]
    /\ pc' = [pc EXCEPT ![p] = "check"]
    /\ UNCHANGED <<config, breaker, ctxDone, timer, attempts, admit, run5xx,
                   cbMu, reported>>

\* Do, Get, Post: a goroutine calls the Client
Do(p) == Call(p) /\ UNCHANGED gets

\* lines 411-414: the permission check at the head of the loop
Check(p) ==
    /\ pc[p] = "check"
    /\ Lock
    /\ Unlock
    /\ \E err \in {"nil", ErrCircuitOpen} :
          /\ checkCircuitBreaker(err)
          /\ IF err = "nil"
             THEN /\ pc' = [pc EXCEPT ![p] = "send"]
                  /\ admit' = [admit EXCEPT ![p] =
                         IF cbState = CircuitClosed THEN "closed" ELSE "probe"]
                  /\ UNCHANGED <<locals, ctxDone, timer, attempts, result,
                                 body>>
             ELSE Return(p, 0, err)
    /\ UNCHANGED <<config, run5xx, gets, reported>>

\* faulty variant: a transport failure counts as a server error
TransportErrorCounts(p) ==
    /\ pc[p] = "send"
    /\ Return(p, 0, IF ctxDone[p] THEN ErrContext ELSE ErrTransport)
    /\ cbConsecutive5xx < MaxConsecutive
    /\ record5xxError
    /\ UNCHANGED <<config, run5xx, gets, cbMu, reported>>

\* lines 418-422: httpClient.Do fails
TransportError(p) ==
    /\ pc[p] = "send"
    /\ Return(p, 0, IF ctxDone[p] THEN ErrContext ELSE ErrTransport)
    /\ UNCHANGED <<config, breaker, run5xx, gets, cbMu, reported>>

\* lines 418-502: httpClient.Do answers with status s
Response(p, s) ==
    /\ pc[p] = "send"
    /\ ~ctxDone[p]
    /\ Is5xx(s) => cbConsecutive5xx < MaxConsecutive
    /\ CASE Is2xx(s) ->
              /\ Lock
              /\ recordSuccess
              /\ Unlock
              /\ run5xx' = 0
              /\ Return(p, s, "nil")
         [] Is4xxNot429(s) ->
              /\ Lock
              /\ recordSuccess
              /\ Unlock
              /\ run5xx' = 0
              /\ Return(p, s, "nil")
         [] Is429(s) ->
              /\ UNCHANGED <<breaker, run5xx, cbMu>>
              /\ IF RateLimitExhausted(retries429[p])
                 THEN Return(p, s, "nil")
                 ELSE \E h \in RetryAfterValues : RateLimited(p, h)
         [] Is5xx(s) ->
              /\ Lock
              /\ record5xxError
              /\ Unlock
              /\ run5xx' = run5xx + 1
              /\ IF ~IsIdempotent(method[p]) \/ ServerErrorExhausted(retries5xx[p])
                 THEN Return(p, s, "nil")
                 ELSE Continue(p, "wait5xx", ServerErrorRetryDelay)
         [] OTHER ->
              /\ UNCHANGED <<breaker, run5xx, cbMu>>
              /\ Return(p, s, "nil")
    /\ UNCHANGED <<config, gets, reported>>

\* lines 464-471 and 492-499: time.After fires
WaitElapsed(p) ==
    /\ pc[p] \in {"wait429", "wait5xx"}
    /\ timer[p] = 0
    /\ retries429' = [retries429 EXCEPT ![p] =
                        IF pc[p] = "wait429" THEN @ + 1 ELSE @]
    /\ retries5xx' = [retries5xx EXCEPT ![p] =
                        IF pc[p] = "wait5xx" THEN @ + 1 ELSE @]
    /\ pc' = [pc EXCEPT ![p] = "check"]
    /\ UNCHANGED <<config, breaker, method, ctxDone, timer, result, attempts,
                   admit, run5xx, gets, cbMu, body, reported>>

\* lines 466-467 and 494-495: ctx.Done() wins the select
WaitCancelled(p) ==
    /\ pc[p] \in {"wait429", "wait5xx"}
    /\ ctxDone[p]
    /\ Return(p, 0, ErrContext)
    /\ UNCHANGED <<config, breaker, run5xx, gets, cbMu, reported>>

\* the caller's context is cancelled or its deadline passes while the call
\* is suspended in the transport or in a wait
Cancel(p) ==
    /\ pc[p] \in {"send", "wait429", "wait5xx"}
    /\ ~ctxDone[p]
    /\ ctxDone' = [ctxDone EXCEPT ![p] = TRUE]
    /\ UNCHANGED <<config, breaker, pc, locals, timer, result, attempts,
                   admit, run5xx, gets, cbMu, body, reported>>

\* faulty variant: the reset leaves the count
ResetKeepsCount ==
    /\ cbState' = CircuitClosed
    /\ cbOpenedAt' = ZeroTime
    /\ cbHalfOpenInFlight' = FALSE
    /\ UNCHANGED <<cbConsecutive5xx, run5xx, config, pc, call, result, gets,
                   cbMu, reported>>

\* faulty variant: the reset leaves openedAt
ResetKeepsOpenedAt ==
    /\ cbState' = CircuitClosed
    /\ cbConsecutive5xx' = 0
    /\ cbHalfOpenInFlight' = FALSE
    /\ run5xx' = 0
    /\ UNCHANGED <<cbOpenedAt, config, pc, call, result, gets, cbMu,
                   reported>>

\* lines 685-692
ResetCircuitBreaker ==
    /\ Lock
    /\ Unlock
    /\ cbState' = CircuitClosed
    /\ cbConsecutive5xx' = 0
    /\ cbOpenedAt' = ZeroTime
    /\ cbHalfOpenInFlight' = FALSE
    /\ run5xx' = 0
    /\ UNCHANGED <<config, pc, call, result, gets, reported>>

\* faulty variant: the accessor makes the transition that is due
CircuitBreakerStateLazy ==
    /\ Lock
    /\ Unlock
    /\ IF cbState = CircuitOpen /\ CooldownElapsed(cbOpenedAt)
       THEN /\ cbState' = CircuitHalfOpen
            /\ reported' = [state |-> CircuitHalfOpen, elapsed |-> TRUE]
       ELSE /\ cbState' = cbState
            /\ reported' = [state |-> cbState, elapsed |-> FALSE]
    /\ UNCHANGED <<config, cbConsecutive5xx, cbOpenedAt, cbHalfOpenInFlight,
                   pc, call, result, run5xx, gets>>

\* lines 678-682: CircuitBreakerState, under the read lock
CircuitBreakerState ==
    /\ Lock
    /\ Unlock
    /\ reported' = [state |-> cbState,
                    elapsed |-> cbState = CircuitOpen
                                /\ CooldownElapsed(cbOpenedAt)]
    /\ UNCHANGED <<config, breaker, pc, call, result, run5xx, gets>>

\* faulty variant: the timer of an abandoned wait runs on, and its case can
\* still be taken
TimerRunsOn(p) == timer[p] > 0

\* lines 464-468 and 492-496: a select blocked on time.After and ctx.Done()
\* is decided by the first of the two to become ready; once ctx is done
\* with the timer still running, the time.After case is out
TimerRuns(p) ==
    timer[p] > 0 /\ ~(ctxDone[p] /\ pc[p] \in {"wait429", "wait5xx"})

\* one second passes
Tick ==
    /\ cbOpenedAt' = IF cbOpenedAt = ZeroTime \/ cbOpenedAt >= cbCooldown
                     THEN cbOpenedAt ELSE cbOpenedAt + 1
    /\ timer' = [p \in Callers |-> IF TimerRuns(p) THEN timer[p] - 1
                                                    ELSE timer[p]]
    /\ UNCHANGED <<config, cbState, cbConsecutive5xx, cbHalfOpenInFlight, pc,
                   locals, ctxDone, result, attempts, admit, run5xx, gets,
                   cbMu, body, reported>>

Next ==
    \/ \E p \in Callers : Do(p)
    \/ \E p \in Callers : Check(p)
    \/ \E p \in Callers : TransportError(p)
    \/ \E p \in Callers, s \in StatusCodes : Response(p, s)
    \/ \E p \in Callers : WaitElapsed(p)
    \/ \E p \in Callers : WaitCancelled(p)
    \/ \E p \in Callers : Cancel(p)
    \/ ResetCircuitBreaker
    \/ Tick

Spec == Init /\ [][Next]_vars

\* ------------------------- TestCircuitBreaker_OpensAfterThreshold, lines 49-90
\* line 61: client.cbCooldown = 1 * time.Second
TestCooldown == 1
\* lines 70 and 86: three client.Get calls in the loop, and one after it
TestGets == 4
\* lines 52-55: the server answers every request with 500
TestServer == {500}

\* the test's Client, with the cooldown the test sets or NewClient's
TestInit ==
    /\ cbCooldown \in {TestCooldown, CircuitBreakerCooldown}
    /\ NewClient
    /\ ParserIdle
    /\ NewSetupServer

\* lines 71 and 86: client.Get(ctx, "/test"), one call after the other
TestGet ==
    /\ gets < TestGets
    /\ Call("c1")
    /\ method'["c1"] = "GET"
    /\ gets' = gets + 1

TestNext ==
    \/ TestGet
    \/ Check("c1")
    \/ \E s \in TestServer : Response("c1", s)
    \/ WaitElapsed("c1")
    \/ Tick

TestSpec == TestInit /\ [][TestNext]_vars

\* ----------- a program that calls the Client from one goroutine and reads
\* the breaker's state between the steps, as the tests do (lines 81, 121,
\* 133, 167, 185, 211, 228, 255)
ReadNext ==
    \/ Do("c1")
    \/ Check("c1")
    \/ \E s \in StatusCodes : Response("c1", s)
    \/ WaitElapsed("c1")
    \/ ResetCircuitBreaker
    \/ CircuitBreakerState
    \/ Tick

ReadSpec == TestInit /\ [][ReadNext]_vars

\* ------------------------------------------------------- the error parser
\* a Go string, as the sequence of its pieces
Unquote(t) ==
    CASE t = "\"error\"" -> <<"error">>
      [] t = "\"code\"" -> <<"code">>
      [] t = "\"message\"" -> <<"message">>
      [] t = "\"doc_url\"" -> <<"doc_url">>
      [] t = "\"c\"" -> <<"c">>
      [] t = "\"m\"" -> <<"m">>
      [] t = "\"u\"" -> <<"u">>
      [] t = "\"k\"" -> <<"k">>

\* no JSON value could be read
NoValue == [ok |-> FALSE, next |-> 0, kind |-> "none", str |-> <<>>,
            members |-> <<>>]
Value(n, k, t, m) == [ok |-> TRUE, next |-> n, kind |-> k, str |-> t,
                      members |-> m]

RECURSIVE ParseValue(_, _)
RECURSIVE ParseMembers(_, _, _)
\* the JSON value that starts at piece i of s (whitespace taken out), and
\* the position after it
ParseValue(s, i) ==
    IF i > Len(s) THEN NoValue
    ELSE IF s[i] \in Strings THEN Value(i + 1, "string", Unquote(s[i]), <<>>)
    ELSE IF s[i] = "null" THEN Value(i + 1, "null", <<>>, <<>>)
    ELSE IF s[i] = "true" THEN Value(i + 1, "bool", <<>>, <<>>)
    ELSE IF s[i] = "{"
    THEN IF i + 1 <= Len(s) /\ s[i + 1] = "}"
         THEN Value(i + 2, "object", <<>>, <<>>)
         ELSE ParseMembers(s, i + 1, <<>>)
    ELSE NoValue
\* the members of an object from piece i on, acc being those already read
ParseMembers(s, i, acc) ==
    IF i + 1 > Len(s) \/ s[i] \notin Strings \/ s[i + 1] # ":"
    THEN NoValue
    ELSE LET v == ParseValue(s, i + 2)
             read == Append(acc, [key |-> Unquote(s[i]), val |-> v])
         IN  IF ~v.ok \/ v.next > Len(s) THEN NoValue
             ELSE IF s[v.next] = "}"
             THEN Value(v.next + 1, "object", <<>>, read)
             ELSE IF s[v.next] = ","
             THEN ParseMembers(s, v.next + 1, read)
             ELSE NoValue

RECURSIVE DecodeAPIError(_, _, _)
\* the members of the error object from the k-th on, decoded into APIError
\* d: a string sets its field, null leaves it, anything else is a type
\* error; unknown keys are skipped
DecodeAPIError(m, k, d) ==
    IF k > Len(m) THEN d
    ELSE LET key == m[k].key
             v == m[k].val
             field == CASE key = <<"code">> -> "Code"
                        [] key = <<"message">> -> "Message"
                        [] key = <<"doc_url">> -> "DocURL"
                        [] OTHER -> "none"
         IN  IF field = "none" \/ v.kind = "null"
             THEN DecodeAPIError(m, k + 1, d)
             ELSE IF v.kind = "string"
             THEN DecodeAPIError(m, k + 1,
                      [d EXCEPT !.resp = [@ EXCEPT ![field] = v.str]])
             ELSE DecodeAPIError(m, k + 1, [d EXCEPT !.err = "type"])

RECURSIVE DecodeResponse(_, _, _)
\* the members of the top object from the k-th on, decoded into
\* errorResponse
DecodeResponse(m, k, d) ==
    IF k > Len(m) THEN d
    ELSE LET v == m[k].val
         IN  IF m[k].key # <<"error">> \/ v.kind = "null"
             THEN DecodeResponse(m, k + 1, d)
             ELSE IF v.kind = "object"
             THEN DecodeResponse(m, k + 1, DecodeAPIError(v.members, 1, d))
             ELSE DecodeResponse(m, k + 1, [d EXCEPT !.err = "type"])

\* json.Unmarshal(body, &resp): the error, and resp.Error
Unmarshal(b) ==
    LET s == SelectSeq(b, LAMBDA t : t \notin Whitespace)
        v == ParseValue(s, 1)
        zero == [err |-> "nil", resp |-> ZeroAPIError]
    IN  IF ~v.ok \/ v.next # Len(s) + 1
        THEN [zero EXCEPT !.err = "syntax"]
        ELSE IF v.kind = "null" THEN zero
        ELSE IF v.kind = "object" THEN DecodeResponse(v.members, 1, zero)
        ELSE [zero EXCEPT !.err = "type"]

RECURSIVE TrimLeft(_)
TrimLeft(b) ==
    IF b # <<>> /\ Head(b) \in Whitespace THEN TrimLeft(Tail(b)) ELSE b
RECURSIVE TrimRight(_)
TrimRight(b) ==
    IF b # <<>> /\ b[Len(b)] \in Whitespace
    THEN TrimRight(SubSeq(b, 1, Len(b) - 1))
    ELSE b
\* strings.TrimSpace
TrimSpace(b) == TrimRight(TrimLeft(b))
\* strings.HasPrefix
HasPrefix(b, prefix) ==
    Len(b) >= Len(prefix) /\ SubSeq(b, 1, Len(prefix)) = prefix

NotFound ==
    [Code |-> <<"not_found">>,
     Message |-> <<"Resource not found or endpoint does not exist">>,
     DocURL |-> <<>>]

\* faulty variant: only the first byte tells an HTML body
ParseAPIErrorFirstByte(b) ==
    LET u == Unmarshal(b)
    IN  IF u.err # "nil"
        THEN IF Len(b) > 0 /\ b[1] = "<"
             THEN NotFound
             ELSE [ZeroAPIError EXCEPT !.Message = b]
        ELSE u.resp

ParseAPIError(b) ==
    LET u == Unmarshal(b)
    IN  IF u.err # "nil"
        THEN IF Len(b) > 0 /\
                (b[1] = "<" \/ HasPrefix(TrimSpace(b), <<"<", "!">>))
             THEN NotFound
             ELSE [ZeroAPIError EXCEPT !.Message = b]
        ELSE u.resp

\* ReadAPIError: the body read from the response is parsed
ReadAPIError ==
    /\ parsed = FALSE
    /\ parsed' = TRUE
    /\ apiError' = ParseAPIError(errBody)
    /\ UNCHANGED <<errBody, client, login>>

\* a response body of any content arrives
ParseInit ==
    /\ errBody \in Bodies
    /\ parsed = FALSE
    /\ apiError = ZeroAPIError
    /\ cbCooldown = CircuitBreakerCooldown
    /\ NewClient
    /\ NewSetupServer

ParseNext == ReadAPIError

ParseSpec == ParseInit /\ [][ParseNext]_vars

\* -------------------------------------------------------- the login server
\* handleComplete up to the select: the method and the csrf token of the
\* request are checked
Serve(h, m, csrf) ==
    /\ hpc[h] = "idle"
    /\ IF m # "POST"
       THEN /\ status' = [status EXCEPT ![h] = StatusMethodNotAllowed]
            /\ hpc' = [hpc EXCEPT ![h] = "done"]
       ELSE IF csrf # "token"
       THEN /\ status' = [status EXCEPT ![h] = StatusForbidden]
            /\ hpc' = [hpc EXCEPT ![h] = "done"]
       ELSE /\ hpc' = [hpc EXCEPT ![h] = "select"]
            /\ UNCHANGED status
    /\ UNCHANGED <<doneChan, closes, client, parser>>

\* the select: the receive case is ready when the channel is closed, the
\* default case is taken otherwise
Select(h) ==
    /\ hpc[h] = "select"
    /\ hpc' = [hpc EXCEPT ![h] = IF doneChan = "closed" THEN "write"
                                  ELSE "close"]
    /\ UNCHANGED <<doneChan, status, closes, client, parser>>

\* close(s.doneChan) in the default case; closing a closed channel panics,
\* and the handler writes nothing
Close(h) ==
    /\ hpc[h] = "close"
    /\ closes' = closes + 1
    /\ IF doneChan = "open"
       THEN /\ doneChan' = "closed"
            /\ hpc' = [hpc EXCEPT ![h] = "write"]
       ELSE /\ hpc' = [hpc EXCEPT ![h] = "panic"]
            /\ UNCHANGED doneChan
    /\ UNCHANGED <<status, client, parser>>

\* writeJSON(w, http.StatusOK, ...)
WriteJSON(h) ==
    /\ hpc[h] = "write"
    /\ status' = [status EXCEPT ![h] = StatusOK]
    /\ hpc' = [hpc EXCEPT ![h] = "done"]
    /\ UNCHANGED <<doneChan, closes, client, parser>>

LoginInit ==
    /\ NewSetupServer
    /\ ParserIdle
    /\ cbCooldown = CircuitBreakerCooldown
    /\ NewClient

LoginNext ==
    \E h \in Handlers :
        \/ \E m \in Methods, csrf \in CsrfValues : Serve(h, m, csrf)
        \/ Select(h)
        \/ Close(h)
        \/ WriteJSON(h)

LoginSpec == LoginInit /\ [][LoginNext]_vars

\* ----------------------------------------------------- steps, as the claims
\* name them (written with the status numbers, not the model's predicates)
\* caller p makes its permission check
CheckStep(p) == pc[p] = "check" /\ pc'[p] # "check"
\* the transport answers caller p with a 5xx status
Got5xx(p) ==
    /\ pc[p] = "send"
    /\ \/ pc'[p] = "wait5xx"
       \/ pc'[p] = "done" /\ result'[p].err = "nil" /\ result'[p].resp >= 500
\* the transport answers caller p with a 2xx status
Got2xx(p) ==
    /\ pc[p] = "send" /\ pc'[p] = "done" /\ result'[p].err = "nil"
    /\ result'[p].resp \in 200..299
\* the transport answers caller p with a 4xx status other than 429
Got4xx(p) ==
    /\ pc[p] = "send" /\ pc'[p] = "done" /\ result'[p].err = "nil"
    /\ result'[p].resp \in (400..499) \ {429}
CircuitOpenResult == [resp |-> 0, err |-> ErrCircuitOpen]

\* C1: every 5xx outcome reported to a Closed breaker leaves it Closed while
\* the running count of consecutive 5xx outcomes is below the threshold, and
\* Open at the outcome that makes the count equal to the threshold.
C1_OpensExactlyAtThreshold ==
    [][\A p \in Callers :
          (Got5xx(p) /\ cbState = CircuitClosed) =>
             cbState' = IF run5xx' = cbThreshold
                        THEN CircuitOpen ELSE CircuitClosed]_vars

\* the breaker has just opened, at a count equal to the threshold
C1_Witness ==
    cbState = CircuitOpen /\ run5xx = cbThreshold /\ cbOpenedAt = 0

\* C2: a permission check made while the breaker is Open and less than the
\* cooldown has passed since openedAt is rejected with ErrCircuitOpen, and
\* no caller enters the transport in that step.
C2_OpenRejects ==
    [][\A p \in Callers :
          (/\ CheckStep(p)
           /\ cbState = CircuitOpen
           /\ cbOpenedAt # ZeroTime /\ cbOpenedAt < cbCooldown) =>
             /\ pc'[p] = "done"
             /\ result'[p] = CircuitOpenResult
             /\ \A q \in Callers : pc'[q] = "send" => pc[q] = "send"]_vars

\* a call was rejected and the breaker is still Open inside its cooldown
C2_Witness ==
    \E p \in Callers :
       /\ pc[p] = "done" /\ result[p] = CircuitOpenResult
       /\ cbState = CircuitOpen
       /\ cbOpenedAt # ZeroTime /\ cbOpenedAt < cbCooldown

\* the requests in flight that were let through after the cooldown expired
ProbesInFlight == {p \in Callers : pc[p] = "send" /\ admit[p] = "probe"}

\* C3: at most one request admitted after the cooldown expired is in flight
\* at a time.
C3_SingleProbe == Cardinality(ProbesInFlight) <= 1

\* C4: a permission check on an Open breaker whose cooldown has elapsed is
\* granted and moves the state to HalfOpen; no permission check moves an Open
\* breaker to Closed.
C4_OpenToHalfOpen ==
    [][\A p \in Callers :
          (CheckStep(p) /\ cbState = CircuitOpen) =>
             /\ cbState' # CircuitClosed
             /\ (cbOpenedAt = ZeroTime \/ cbOpenedAt >= cbCooldown) =>
                   (pc'[p] = "send" /\ cbState' = CircuitHalfOpen)]_vars

\* the first request after the cooldown is in flight, the breaker HalfOpen
C4_Witness ==
    /\ cbState = CircuitHalfOpen
    /\ \E p \in Callers : pc[p] = "send" /\ admit[p] = "probe"
    /\ Cardinality(ProbesInFlight) = 1

\* C5: a 5xx outcome reported while the breaker is HalfOpen moves it to
\* Open, sets openedAt to the current time and clears halfOpenProbeInFlight.
C5_HalfOpenFailureReopens ==
    [][\A p \in Callers :
          (Got5xx(p) /\ cbState = CircuitHalfOpen) =>
             /\ cbState' = CircuitOpen
             /\ cbOpenedAt' = TimeNow
             /\ cbHalfOpenInFlight' = FALSE]_vars

\* the one caller's probe has just failed: the breaker is Open again, with a
\* count above the threshold
C5_Witness ==
    /\ cbCooldown = CircuitBreakerCooldown
    /\ cbState = CircuitOpen /\ cbOpenedAt = 0
    /\ run5xx = cbThreshold + 1

\* C6: every 2xx or non-429 4xx response, in whatever state the breaker is,
\* leaves it Closed with a count of 0 and halfOpenProbeInFlight cleared.
C6_SuccessCloses ==
    [][\A p \in Callers :
          (Got2xx(p) \/ Got4xx(p)) =>
             /\ cbState' = CircuitClosed
             /\ cbConsecutive5xx' = 0
             /\ cbHalfOpenInFlight' = FALSE]_vars

\* a 2xx response has closed a breaker that had been opened
C6_Witness ==
    \E p \in Callers :
       /\ pc[p] = "done" /\ result[p] = [resp |-> 200, err |-> "nil"]
       /\ cbState = CircuitClosed /\ cbConsecutive5xx = 0
       /\ cbOpenedAt # ZeroTime

\* C7, as stated: a 4xx response other than 429 resets the count and changes
\* no other breaker field.
C7_ClientErrorOnlyResetsCount ==
    [][\A p \in Callers :
          Got4xx(p) =>
             /\ cbConsecutive5xx' = 0
             /\ UNCHANGED <<cbState, cbOpenedAt, cbHalfOpenInFlight>>]_vars

\* C7, amended: a 4xx response other than 429 resets the count, leaves
\* openedAt alone and never opens the breaker; it changes nothing else on a
\* Closed breaker, and closes an Open or HalfOpen one, clearing the flag.
C7_ClientErrorResetsNeverOpens ==
    [][\A p \in Callers :
          Got4xx(p) =>
             /\ cbConsecutive5xx' = 0
             /\ cbOpenedAt' = cbOpenedAt
             /\ cbState' = CircuitClosed
             /\ cbHalfOpenInFlight' = FALSE
             /\ cbState = CircuitClosed =>
                   UNCHANGED <<cbState, cbOpenedAt, cbHalfOpenInFlight>>]_vars

\* a 404 has been answered to the one caller, on a breaker opened before
C7_Witness ==
    /\ cbCooldown = CircuitBreakerCooldown
    /\ pc["c1"] = "done" /\ result["c1"] = [resp |-> 404, err |-> "nil"]
    /\ cbState = CircuitClosed /\ cbConsecutive5xx = 0
    /\ cbOpenedAt # ZeroTime

\* C8: the breaker leaves Closed only when the current run of 5xx outcomes,
\* uninterrupted by a 2xx or non-429 4xx outcome, has reached the threshold:
\* runs shorter than the threshold leave it Closed.
C8_ShortRunsStayClosed == cbState # CircuitClosed => run5xx >= cbThreshold

\* one short of the threshold after an interrupting 2xx, and still Closed
C8_Witness ==
    /\ cbState = CircuitClosed
    /\ run5xx = cbThreshold - 1
    /\ \E p \in Callers :
          pc[p] = "done" /\ result[p] = [resp |-> 200, err |-> "nil"]

\* the breaker as ResetCircuitBreaker leaves it
ResetState ==
    /\ cbState = CircuitClosed
    /\ cbConsecutive5xx = 0
    /\ cbOpenedAt = ZeroTime
    /\ cbHalfOpenInFlight = FALSE

\* C9: ResetCircuitBreaker, from any state, leaves the breaker Closed with a
\* count of 0, a zero openedAt and a cleared flag, and a permission check
\* made in that state is granted.
C9_ResetClosesAndAdmits ==
    [][/\ ResetCircuitBreaker => ResetState'
       /\ \A p \in Callers :
             (CheckStep(p) /\ ResetState) =>
                (pc'[p] = "send" /\ UNCHANGED breaker)]_vars

\* after a rejection the breaker was reset, and a request was let through
C9_Witness ==
    /\ ResetState
    /\ \E p, q \in Callers :
          /\ pc[p] = "done" /\ result[p] = CircuitOpenResult
          /\ pc[q] = "send" /\ admit[q] = "closed"

\* C10: a call enters the transport only through a granted permission check,
\* on its first attempt and on every retry; a rejected check ends the call
\* at once with ErrCircuitOpen and no response, changes no breaker field and
\* advances neither retry counter.
C10_CheckBeforeEveryAttempt ==
    [][\A p \in Callers :
          /\ (pc'[p] = "send" /\ pc[p] # "send") =>
                (CheckStep(p) /\ admit'[p] # "none")
          /\ (CheckStep(p) /\ pc'[p] # "send") =>
                /\ pc'[p] = "done"
                /\ result'[p] = CircuitOpenResult
                /\ UNCHANGED breaker
                /\ retries429'[p] <= retries429[p]
                /\ retries5xx'[p] <= retries5xx[p]]_vars

\* a call was rejected while a probe was outstanding
C10_Witness ==
    /\ cbState = CircuitHalfOpen /\ cbHalfOpenInFlight
    /\ \E p \in Callers : pc[p] = "done" /\ result[p] = CircuitOpenResult

\* the transport answers caller p with 429
Got429(p) ==
    /\ pc[p] = "send"
    /\ \/ pc'[p] = "wait429"
       \/ pc'[p] = "done" /\ result'[p] = [resp |-> 429, err |-> "nil"]

\* C11: a call never has more than maxRateLimitRetries retries after 429
\* responses behind it, and a 429 that arrives with that many behind it ends
\* the call with the 429 response itself and a nil error.
C11_RateLimitRetriesBounded ==
    [][\A p \in Callers :
          /\ retries429'[p] <= 3
          /\ (Got429(p) /\ retries429[p] >= 3) =>
                (pc'[p] = "done" /\ result'[p] = [resp |-> 429, err |-> "nil"])
          /\ (Got429(p) /\ retries429[p] < 3) => pc'[p] = "wait429"]_vars

\* a call has returned a 429 response with a nil error
C11_Witness ==
    \E p \in Callers :
       pc[p] = "done" /\ result[p] = [resp |-> 429, err |-> "nil"]

\* C12: a 5xx response to a method other than GET, HEAD and OPTIONS is
\* recorded in the breaker and ends the call with that response: no wait,
\* no retry, no server-error retry behind it.
C12_NonIdempotentNotRetried ==
    [][\A p \in Callers :
          (Got5xx(p) /\ method[p] \notin {"GET", "HEAD", "OPTIONS"}) =>
             /\ cbConsecutive5xx' = cbConsecutive5xx + 1
             /\ pc'[p] = "done"
             /\ result'[p].resp >= 500 /\ result'[p].err = "nil"
             /\ retries5xx[p] = 0]_vars

\* the one caller's call has returned a 5xx that is the first of its run:
\* it was not retried
C12_Witness ==
    /\ cbCooldown = CircuitBreakerCooldown
    /\ pc["c1"] = "done" /\ result["c1"] = [resp |-> 500, err |-> "nil"]
    /\ run5xx = 1 /\ cbConsecutive5xx = 1 /\ cbOpenedAt = ZeroTime

C14_ThreeGetsSixErrors ==
    [][/\ (pc'["c1"] = "done" /\ gets' \in 1..3) =>
             cbConsecutive5xx' = 2 * gets'
       /\ (pc'["c1"] = "done" /\ gets' = 3) => cbState' = CircuitOpen
       /\ (CheckStep("c1") /\ gets = 4 /\ cbOpenedAt < cbCooldown) =>
             (pc'["c1"] = "done" /\ result'["c1"] = CircuitOpenResult)]_vars

\* C14, amended: the first and the second Get leave 2 and 4 recorded errors
\* and the breaker Closed; the third leaves the breaker Open, with 6 recorded
\* errors and a 5xx response when the cooldown is no longer than the retry
\* delay, and otherwise with 5 or 6, the call ending in ErrCircuitOpen when
\* it is 5; a fourth call made inside the cooldown is rejected at its first
\* permission check, with no transport attempt.
C14_ThreeGetsOpen ==
    [][/\ (pc'["c1"] = "done" /\ gets' \in 1..2) =>
             (cbConsecutive5xx' = 2 * gets' /\ cbState' = CircuitClosed)
       /\ (pc'["c1"] = "done" /\ gets' = 3) =>
             /\ cbState' = CircuitOpen
             /\ cbConsecutive5xx' \in {5, 6}
             /\ cbConsecutive5xx' = 5 <=> result'["c1"] = CircuitOpenResult
             /\ cbConsecutive5xx' = 6 <=>
                   result'["c1"] = [resp |-> 500, err |-> "nil"]
             /\ cbCooldown <= ServerErrorRetryDelay => cbConsecutive5xx' = 6
       /\ (CheckStep("c1") /\ gets = 4 /\ attempts["c1"] = 0
              /\ cbState = CircuitOpen /\ cbOpenedAt < cbCooldown) =>
             /\ pc'["c1"] = "done" /\ result'["c1"] = CircuitOpenResult
             /\ UNCHANGED breaker]_vars

\* with the test's cooldown: six errors recorded by three calls, and the
\* fourth rejected
C14_Witness ==
    /\ cbCooldown = TestCooldown
    /\ gets = 4 /\ pc["c1"] = "done" /\ result["c1"] = CircuitOpenResult
    /\ cbState = CircuitOpen /\ cbConsecutive5xx = 6

\* caller p is in a backoff wait that has time left, and its context is done
CancelledWhilePending(p) ==
    pc[p] \in {"wait429", "wait5xx"} /\ ctxDone[p] /\ timer[p] > 0

\* C15: a call whose context is done while its backoff wait still has time
\* left stays so until it returns the context's error without a response:
\* it makes no permission check and no transport attempt.
C15_CancelledWaitReturns ==
    [][\A p \in Callers :
          CancelledWhilePending(p) =>
             \/ CancelledWhilePending(p)'
             \/ /\ pc'[p] = "done"
                /\ result'[p] = [resp |-> 0, err |-> ErrContext]
                /\ UNCHANGED breaker]_vars

\* the one caller's wait after the 5xx that opened the breaker was cancelled
\* within the second: the call has returned the context's error
C15_Witness ==
    /\ cbCooldown = CircuitBreakerCooldown
    /\ pc["c1"] = "done" /\ result["c1"] = [resp |-> 0, err |-> ErrContext]
    /\ cbState = CircuitOpen /\ cbOpenedAt = 0

\* the breaker is HalfOpen with halfOpenProbeInFlight set and no request is
\* in the transport: every permission check is rejected, whatever the time
Stuck ==
    /\ cbState = CircuitHalfOpen
    /\ cbHalfOpenInFlight
    /\ \A p \in Callers : pc[p] # "send"

\* short of ResetCircuitBreaker, no step leads out of that state: time
\* passes, calls are made, and each is rejected
StuckForever ==
    [][(Stuck /\ ~ResetState') =>
          (Stuck' /\ \A p \in Callers :
                        CheckStep(p) => result'[p] = CircuitOpenResult)]_vars

\* C16: the breaker never reaches a state in which every future permission
\* check is rejected, however long the callers wait.
C16_NeverStuck == ~Stuck

\* C17: halfOpenProbeInFlight is true only while a request admitted as the
\* probe is in the transport; no call that has returned leaves it set.
C17_FlagOnlyWhileProbeOutstanding ==
    cbHalfOpenInFlight => Cardinality(ProbesInFlight) >= 1

\* C18: a call makes at most 1 + maxRateLimitRetries + max5xxRetries = 5
\* transport attempts, with either cooldown: at most 4 are behind it when
\* it enters the transport or waits.
C18_AttemptsBounded ==
    \A p \in Callers :
       /\ attempts[p] <= 3 + 1
       /\ pc[p] = "send" => attempts[p] + 1 <= 1 + 3 + 1

\* a call is in its fifth transport attempt
C18_Witness == \E p \in Callers : pc[p] = "send" /\ attempts[p] = 4

\* httpClient.Do fails for caller p: the call ends with an error from the
\* transport
Failed(p) ==
    /\ pc[p] = "send" /\ pc'[p] = "done"
    /\ result'[p].err \in {ErrTransport, ErrContext}

\* C19: a transport failure ends the call at once with the error and no
\* response, advances neither retry counter and leaves the breaker's state,
\* count and openedAt as they were; a call leaves the transport for a wait
\* only with a response.
C19_TransportFailureEndsCall ==
    [][\A p \in Callers :
          /\ Failed(p) =>
                /\ result'[p].resp = 0
                /\ UNCHANGED <<cbState, cbConsecutive5xx, cbOpenedAt>>
                /\ retries429'[p] <= retries429[p]
                /\ retries5xx'[p] <= retries5xx[p]
          /\ (pc[p] = "send" /\ pc'[p] \notin {"send", "done"}) =>
                (Got429(p) \/ Got5xx(p))]_vars

\* a transport failure has ended a call and three recorded errors are still
\* there
C19_Witness ==
    \E p \in Callers :
       /\ pc[p] = "done" /\ result[p] = [resp |-> 0, err |-> ErrTransport]
       /\ cbState = CircuitClosed /\ cbConsecutive5xx = 3

\* C20: after a 429 with no Retry-After header and k rate-limit retries
\* made, k in 0..2, the wait w is at least base = baseDelay * 2^k and less
\* than 1.5 * base.
C20_BackoffWindow ==
    [][\A p \in Callers :
          (pc[p] = "send" /\ retries429[p] \in 0..2 /\ RateLimited(p, <<>>)) =>
             LET base == 1 * 2^(retries429[p])
             IN  /\ pc'[p] = "wait429"
                 /\ timer'[p] >= base
                 /\ 2 * timer'[p] < 3 * base]_vars

\* the third wait, with jitter: 4 and 1 seconds
C20_Witness ==
    \E p \in Callers :
       pc[p] = "wait429" /\ retries429[p] = 2 /\ timer[p] = 5

\* a 429 with retries left arrives for caller p with Retry-After header h
Got429With(p, h) ==
    /\ pc[p] = "send" /\ pc'[p] # "send"
    /\ retries429[p] \in 0..2
    /\ RateLimited(p, h)

C30_UnparseableHeaderIgnored ==
    [][\A p \in Callers :
          \A h \in {<<"W", "e", "d">>, <<"1", ".", "5">>} :
             Got429With(p, h) =>
                /\ pc'[p] = "wait429"
                /\ timer'[p] >= 2^(retries429[p])
                /\ 2 * timer'[p] < 3 * 2^(retries429[p])]_vars

\* the second wait with its computed length, 2 seconds, still to run
C30_Witness ==
    \E p \in Callers :
       pc[p] = "wait429" /\ retries429[p] = 1 /\ timer[p] = 2
       /\ attempts[p] = 2

\* C22: the breaker lock is free whenever a caller is in the transport or
\* in a backoff wait, and while one caller is in the transport with the
\* breaker Closed another caller's permission check can run and is granted.
C22_LockNotHeldAcrossTransport ==
    /\ (\E p \in Callers : pc[p] \in {"send", "wait429", "wait5xx"}) =>
          cbMu = "unlocked"
    /\ \A p, q \in Callers :
          (/\ p # q
           /\ pc[p] = "send" /\ pc[q] = "check"
           /\ cbState = CircuitClosed) =>
             ENABLED (Check(q) /\ pc'[q] = "send")

\* two callers are in the transport at once, both let through by the Closed
\* breaker
C22_Witness ==
    /\ cbState = CircuitClosed
    /\ \A p \in Callers : pc[p] = "send" /\ admit[p] = "closed"

\* C23: the permission check that moves the breaker from Open to HalfOpen
\* leaves halfOpenProbeInFlight set.
C23_TransitionSetsFlag ==
    [][\A p \in Callers :
          (CheckStep(p) /\ cbState = CircuitOpen /\ cbState' = CircuitHalfOpen)
             => cbHalfOpenInFlight']_vars

\* C24: openedAt is written only by a step that takes the breaker from
\* Closed or HalfOpen to Open, or by the reset: a 5xx outcome on a breaker
\* that is already Open leaves it.
C24_OpenedAtOnlyOnTransition ==
    [][\A p \in Callers :
          (Got5xx(p) /\ cbState = CircuitOpen) =>
             cbOpenedAt' = cbOpenedAt]_vars

\* C25: every 5xx response, to a first attempt or to a retry and whatever
\* the breaker's state, adds exactly 1 to the count.
C25_Every5xxCounts ==
    [][\A p \in Callers :
          Got5xx(p) => cbConsecutive5xx' = cbConsecutive5xx + 1]_vars

\* the probe of the one caller was answered 5xx: the count is one above the
\* threshold, the breaker Open again
C25_Witness ==
    /\ cbCooldown = CircuitBreakerCooldown
    /\ cbState = CircuitOpen /\ cbOpenedAt = 0
    /\ cbConsecutive5xx = cbThreshold + 1
    /\ pc["c1"] = "done" /\ result["c1"] = [resp |-> 500, err |-> "nil"]

\* C26: a 429 response changes no breaker field and does not interrupt the
\* run of consecutive 5xx outcomes.
C26_RateLimitIsNoSignal ==
    [][\A p \in Callers :
          Got429(p) => (UNCHANGED breaker /\ run5xx' = run5xx)]_vars

\* the one caller waits after a 429 that came with three errors recorded
C26_Witness ==
    /\ cbCooldown = CircuitBreakerCooldown
    /\ pc["c1"] = "wait429"
    /\ cbState = CircuitClosed /\ cbConsecutive5xx = 3 /\ run5xx = 3

\* caller p enters doWithRetry
CallStep(p) == pc[p] \in {"idle", "done"} /\ pc'[p] = "check"

\* C27: every call starts with both retry counters at 0, whatever other
\* calls have spent, and a call's counters change only at its own steps.
C27_CountersPerCall ==
    [][\A p \in Callers :
          /\ CallStep(p) => (retries429'[p] = 0 /\ retries5xx'[p] = 0)
          /\ pc'[p] = pc[p] =>
                (retries429'[p] = retries429[p]
                   /\ retries5xx'[p] = retries5xx[p])]_vars

\* one call has spent its three rate-limit retries; another, started
\* meanwhile, is in its first attempt with none spent
C27_Witness ==
    \E p, q \in Callers :
       /\ retries429[q] = 3 /\ pc[q] = "send"
       /\ pc[p] = "send" /\ attempts[p] = 0 /\ retries429[p] = 0

\* C28: CircuitBreakerState returns cbState and changes nothing: it reports
\* Open for an Open breaker whose cooldown is over, and leaves it Open.
C28_AccessorIsPureRead ==
    [][/\ CircuitBreakerState =>
             (reported'.state = cbState /\ UNCHANGED <<breaker, pc>>)
       /\ reported' # reported =>
             (reported'.state = cbState /\ UNCHANGED <<breaker, pc>>)]_vars

\* the state was read after the cooldown was over: Open was returned, and
\* the breaker is still Open
C28_Witness ==
    /\ reported = [state |-> CircuitOpen, elapsed |-> TRUE]
    /\ cbState = CircuitOpen

\* C29: a call is in the transport, at its first attempt and at every retry,
\* with the body the request was built with: the whole of it for a Post,
\* never a reader already read to its end.
C29_BodyReplayed ==
    \A p \in Callers :
       pc[p] = "send" =>
          /\ body[p] # Drained
          /\ method[p] = "POST" <=> body[p] = "data"
          /\ method[p] = "GET" <=> body[p] = "nil"

\* a Post is in its third transport attempt, with its body
C29_Witness ==
    \E p \in Callers :
       /\ pc[p] = "send" /\ method[p] = "POST"
       /\ attempts[p] = 2 /\ retries429[p] = 2
       /\ body[p] = "data"

\* C32: the breaker is Closed exactly when the count is below the
\* threshold; Open and HalfOpen always have a count of at least the
\* threshold.
C32_ClosedIffBelowThreshold ==
    cbState = CircuitClosed <=> cbConsecutive5xx < cbThreshold

\* the breaker is HalfOpen with the count it was opened with
C32_Witness ==
    cbState = CircuitHalfOpen /\ cbConsecutive5xx = cbThreshold

\* C33: halfOpenProbeInFlight is set only while the breaker is HalfOpen.
C33_FlagOnlyInHalfOpen == cbHalfOpenInFlight => cbState = CircuitHalfOpen

\* the flag is set, by the request that is in the transport as the probe
C33_Witness ==
    /\ cbHalfOpenInFlight
    /\ \E p \in Callers :
          pc[p] = "send" /\ admit[p] = "probe" /\ attempts[p] = 0

\* caller p's request is let into the transport
Admitted(p) == pc[p] = "check" /\ pc'[p] = "send"
\* less than the cooldown has passed since openedAt, which no reset has
\* cleared
InsideCooldown == cbOpenedAt # ZeroTime /\ cbOpenedAt < cbCooldown

C35_OnlyProbeResolves ==
    [][\A p, q \in Callers :
          (/\ p # q
           /\ cbState = CircuitHalfOpen
           /\ pc[p] = "send" /\ admit[p] = "probe"
           /\ admit[q] = "closed"
           /\ Got5xx(q) \/ Got2xx(q) \/ Got4xx(q)) =>
             UNCHANGED <<cbState, cbHalfOpenInFlight>>]_vars

\* the body is an HTML document as the parser tells one: its first byte is
\* '<', or "<!" follows leading whitespace
StartsWithTag(b) == b # <<>> /\ b[1] = "<"
TagAfterWhitespace(b) ==
    \E k \in 1..Len(b) :
        /\ k + 1 <= Len(b)
        /\ \A i \in 1..(k - 1) : b[i] = " "
        /\ b[k] = "<" /\ b[k + 1] = "!"
RawBody(b) == [Code |-> <<>>, Message |-> b, DocURL |-> <<>>]

\* C31, as stated: a body that decodes yields the decoded error; one that
\* does not decode and starts with '<' yields the generic not-found error;
\* any other body that does not decode yields the raw body as the message.
C31_ThreeWayByFirstByte ==
    parsed =>
        /\ Unmarshal(errBody).err = "nil" =>
               apiError = Unmarshal(errBody).resp
        /\ (Unmarshal(errBody).err # "nil" /\ StartsWithTag(errBody)) =>
               apiError = NotFound
        /\ (Unmarshal(errBody).err # "nil" /\ ~StartsWithTag(errBody)) =>
               apiError = RawBody(errBody)

\* C31, amended: ParseAPIError returns for every body, with exactly one of
\* three results: the decoded error for a body that decodes (the code and
\* message of the envelope); the generic not-found error for a body that
\* does not decode and starts with '<' or, after leading whitespace, with
\* "<!"; the raw body as the message for any other body.
C31_ThreeWayClassification ==
    parsed =>
        /\ Unmarshal(errBody).err = "nil" =>
               apiError = Unmarshal(errBody).resp
        /\ errBody = Envelope =>
               apiError = [Code |-> <<"c">>, Message |-> <<"m">>,
                           DocURL |-> <<"u">>]
        /\ (/\ Unmarshal(errBody).err # "nil"
            /\ StartsWithTag(errBody) \/ TagAfterWhitespace(errBody)) =>
               apiError = NotFound
        /\ (/\ Unmarshal(errBody).err # "nil"
            /\ ~StartsWithTag(errBody)
            /\ ~TagAfterWhitespace(errBody)) =>
               apiError = RawBody(errBody)

\* a body of whitespace and then "<!" was parsed
C31_Witness ==
    /\ parsed
    /\ errBody = <<" ", "<", "!">>
    /\ apiError = NotFound

\* C36: every POST /complete with the valid token is answered 200, and the
\* done channel is never closed a second time.
C36_CompleteIdempotent ==
    /\ closes <= 1
    /\ \A h \in Handlers : hpc[h] # "panic"

====
